---- MODULE Spec2Model ----
(***************************************************************************)
(* Model of the subtitle editor "sube": the timeline row builder           *)
(* (createTimelineRows, two variants found in the source) and the project  *)
(* store actions that edit the cue collection (adjustSubtitleTiming,       *)
(* updateSubtitleText, importSubtitles) or other parts of the project     *)
(* (renameProject, importWaveform), and the asynchronous actions on the    *)
(* key-value store (importAudio, importProjectData, deleteProject,         *)
(* loadProject), each split at the awaits where other calls can run; any   *)
(* number of calls can be in flight at once, up to MaxCalls.  The          *)
(* key-value store (idb-keyval) takes an operation when it is called and   *)
(* completes it later; the operations complete in the order of the calls.  *)
(*                                                                         *)
(* Pixel values are IEEE doubles in the source.  They are modelled as      *)
(* exact rationals in lowest terms, [num, den]; for the configurations     *)
(* enumerated here (msPerPoint and barWidth powers of two) every double    *)
(* operation of the source is exact, so the rational is the double.        *)
(***************************************************************************)
EXTENDS Integers, Sequences, FiniteSets, TLC

VARIABLES
    \* ---- createTimelineRows: arguments and result of one call ----
    waveform,       \* Absent, or Given(the sequence of amplitudes)
    cues,           \* Absent, or Given(the sequence of SubtitleCue)
    config,         \* [barWidth, pointsPerRow, msPerPoint]
    layout,         \* [variant, status, rows] once the call was made
    \* ---- project store ----
    currentProject, \* projectStore.currentProject: Null or a Project
    persisted,      \* the project record held by the key-value store
                    \* (under SpecLoad: the record of each project id)
                    \* (timestamps createdAt/updatedAt are not modelled)
    calls,          \* the calls of store and storage functions made so
                    \* far, in the order made: each with its arguments, its
                    \* position (pc), its locals, the value it returns, and
                    \* what it found when it was made (pre)
    \* ---- roundToNearest100ms: argument and result of one application ----
    boundary,       \* the boundary value handed to roundToNearest100ms
    rounded,        \* Absent, or Given(the value it returned)
    \* ---- asynchronous calls and the rest of the key-value store ----
    blobs,          \* ids of the media blobs held under "audio/<id>"
    loads,          \* the loadProject calls started, each with its position
    isLoading,      \* projectStore.isLoading
    pending         \* the get/set/del operations handed to the key-value
                    \* store and not completed, oldest first

rowVars   == <<waveform, cues, config, layout>>
storeVars == <<currentProject, persisted, calls>>
roundVars == <<boundary, rounded>>
asyncVars == <<blobs, loads, isLoading, pending>>
vars      == <<waveform, cues, config, layout,
               currentProject, persisted, calls, boundary, rounded,
               blobs, loads, isLoading, pending>>

(***************************************************************************)
(* Bounds of the model                                                     *)
(***************************************************************************)
MaxPoints == 3        \* longest waveform
MaxPointsPerRow == 2  \* largest config.pointsPerRow
MaxCueStart == 4      \* latest start of a cue handed to createTimelineRows
MaxRowCues == 2       \* longest cue list handed to createTimelineRows

\* An optional argument: Absent when undefined, Given(v) otherwise.
Absent   == [given |-> FALSE, value |-> <<>>]
Given(v) == [given |-> TRUE, value |-> v]
Undefined == "<undefined>"   \* an optional field that is not set
Null      == [id |-> "<null>"]

\* (barWidth, msPerPoint) pairs: whole and half pixels per millisecond
Scales == {[barWidth |-> 2, msPerPoint |-> 1], [barWidth |-> 1, msPerPoint |-> 2]}
RowCueDurations == {1, 5}
RowCueIds   == {Undefined, "x"}
RowCueTexts == {"a"}

(***************************************************************************)
(* Arithmetic helpers                                                      *)
(***************************************************************************)
Min(a, b) == IF a <= b THEN a ELSE b
Max(a, b) == IF a >= b THEN a ELSE b
Abs(a) == IF a < 0 THEN -a ELSE a

RECURSIVE GCD(_, _)
GCD(a, b) == IF b = 0 THEN a ELSE GCD(b, a % b)

\* The number n/d (d > 0) in lowest terms.
Frac(n, d) ==
    LET g == GCD(Abs(n), d)
    IN  [num |-> n \div g, den |-> d \div g]

\* Math.max(0, q) for a rational q.
FracMax0(q) == IF q.num < 0 THEN Frac(0, 1) ELSE q

\* (a / m) * b as the source evaluates it, m > 0.
DivMul(a, m, b) == Frac(a * b, m)

(***************************************************************************)
(* createTimelineRows                                                      *)
(***************************************************************************)

\* Mutant of InsertByStart: a cue is put before the cues of equal start (the
\* sort is not stable).
RECURSIVE InsertByStart_Unstable(_, _)
InsertByStart_Unstable(x, s) ==
    IF s = <<>> THEN <<x>>
    ELSE IF x.start <= s[Len(s)].start
         THEN Append(InsertByStart_Unstable(x, SubSeq(s, 1, Len(s) - 1)), s[Len(s)])
         ELSE Append(s, x)

\* [...subtitles].sort((a, b) => a.start - b.start): a stable sort by start.
RECURSIVE InsertByStart(_, _)
InsertByStart(x, s) ==
    IF s = <<>> THEN <<x>>
    ELSE IF x.start < s[Len(s)].start
         THEN Append(InsertByStart(x, SubSeq(s, 1, Len(s) - 1)), s[Len(s)])
         ELSE Append(s, x)

RECURSIVE SortByStart(_)
SortByStart(s) ==
    IF s = <<>> THEN <<>>
    ELSE InsertByStart(s[Len(s)], SortByStart(SubSeq(s, 1, Len(s) - 1)))

\* Mutant of MakeRow: every row is given the time span of a full row.
MakeRow_FullSpan(startPoint, pointsInRow, cfg) ==
    [startTime  |-> startPoint * cfg.msPerPoint,
     endTime    |-> startPoint * cfg.msPerPoint + cfg.pointsPerRow * cfg.msPerPoint,
     startPoint |-> startPoint,
     pointCount |-> pointsInRow,
     width      |-> pointsInRow * cfg.barWidth,
     subtitles  |-> <<>>]

MakeRow(startPoint, pointsInRow, cfg) ==
    [startTime  |-> startPoint * cfg.msPerPoint,
     endTime    |-> startPoint * cfg.msPerPoint + pointsInRow * cfg.msPerPoint,
     startPoint |-> startPoint,
     pointCount |-> pointsInRow,
     width      |-> pointsInRow * cfg.barWidth,
     subtitles  |-> <<>>]

\* First pass of the first variant: the while loop over currentPoint.
\* Only evaluated with pointsPerRow >= 1 (see FirstPassHangs).
RECURSIVE FirstPass(_, _, _)
FirstPass(currentPoint, totalPoints, cfg) ==
    IF currentPoint < totalPoints
    THEN LET pointsInRow == Min(cfg.pointsPerRow, totalPoints - currentPoint)
         IN  <<MakeRow(currentPoint, pointsInRow, cfg)>>
               \o FirstPass(currentPoint + pointsInRow, totalPoints, cfg)
    ELSE <<>>

\* First pass of the second variant, part 1: the starting point of each row.
RECURSIVE StartingPoints(_, _, _)
StartingPoints(currentPoint, totalPoints, cfg) ==
    IF currentPoint < totalPoints
    THEN <<currentPoint>>
           \o StartingPoints(currentPoint + cfg.pointsPerRow, totalPoints, cfg)
    ELSE <<>>

\* First pass of the second variant, part 2: a row per starting point.
FirstPassAlt(totalPoints, cfg) ==
    LET startingPoints == StartingPoints(0, totalPoints, cfg)
    IN  [i \in 1..Len(startingPoints) |->
            LET startPoint == startingPoints[i]
                nextStartPoint == IF i < Len(startingPoints)
                                  THEN startingPoints[i + 1]
                                  ELSE totalPoints
            IN  MakeRow(startPoint, nextStartPoint - startPoint, cfg)]

\* With pointsPerRow <= 0 neither while loop advances currentPoint past
\* totalPoints: the call never returns.
FirstPassHangs(totalPoints, cfg) ==
    totalPoints > 0 /\ cfg.pointsPerRow <= 0

\* Mutant of FindRowIndex: the start of the row is excluded (start > startTime).
FindRowIndex_Exclusive(rows, start) ==
    LET hits == {i \in 1..Len(rows) :
                    start > rows[i].startTime /\ start < rows[i].endTime}
    IN  IF hits = {} THEN 0
        ELSE CHOOSE i \in hits : \A j \in hits : i <= j

\* rows.findIndex(row => start >= row.startTime && start < row.endTime),
\* 1-based; 0 stands for -1.
FindRowIndex(rows, start) ==
    LET hits == {i \in 1..Len(rows) :
                    start >= rows[i].startTime /\ start < rows[i].endTime}
    IN  IF hits = {} THEN 0
        ELSE CHOOSE i \in hits : \A j \in hits : i <= j

\* Mutant of SegmentId: the synthesized id counts from 1.
SegmentId_OneBased(subtitle, index) ==
    IF subtitle.id = Undefined \/ subtitle.id = ""
    THEN "subtitle-" \o ToString(index + 1)
    ELSE subtitle.id

\* subtitle.id || `subtitle-${index}` (index is 0-based)
SegmentId(subtitle, index) ==
    IF subtitle.id = Undefined \/ subtitle.id = ""
    THEN "subtitle-" \o ToString(index)
    ELSE subtitle.id

\* Mutant of MakeSegment: the width is clipped to the part inside the row.
MakeSegment_Clipped(subtitle, index, row, cfg) ==
    [id    |-> SegmentId(subtitle, index),
     start |-> subtitle.start,
     end   |-> subtitle.end,
     text  |-> subtitle.text,
     startOffsetInRow |->
         FracMax0(DivMul(subtitle.start - row.startTime,
                         cfg.msPerPoint, cfg.barWidth)),
     width |-> DivMul(Min(subtitle.end, row.endTime)
                        - Max(subtitle.start, row.startTime),
                      cfg.msPerPoint, cfg.barWidth)]

MakeSegment(subtitle, index, row, cfg) ==
    [id    |-> SegmentId(subtitle, index),
     start |-> subtitle.start,
     end   |-> subtitle.end,
     text  |-> subtitle.text,
     startOffsetInRow |->
         FracMax0(DivMul(subtitle.start - row.startTime,
                         cfg.msPerPoint, cfg.barWidth)),
     width |-> DivMul(subtitle.end - subtitle.start,
                      cfg.msPerPoint, cfg.barWidth)]

\* Mutant of TargetRow: a subtitle no row contains always goes to the first
\* row (the early return for a cue that ends before the timeline is missing).
TargetRow_NoDrop(rows, subtitle) ==
    LET rowIndex == FindRowIndex(rows, subtitle.start)
    IN  IF rowIndex # 0 THEN rowIndex ELSE 1

\* Mutant of TargetRow: a subtitle no row contains is always skipped (the
\* fallback to the first row is missing).
TargetRow_SkipUnplaced(rows, subtitle) ==
    FindRowIndex(rows, subtitle.start)

\* The row a subtitle is pushed to (1-based), 0 when the callback returns
\* early.  Not evaluated with rows empty (see SecondPassThrows).
TargetRow(rows, subtitle) ==
    LET rowIndex == FindRowIndex(rows, subtitle.start)
    IN  IF rowIndex # 0 THEN rowIndex
        ELSE IF subtitle.end < rows[1].startTime THEN 0
        ELSE 1

\* Mutant of SecondPass: a segment is pushed to every row the cue reaches
\* into (the superseded behaviour that splits a cue across rows).
RECURSIVE SecondPass_Split(_, _, _, _)
SecondPass_Split(rows, sorted, k, cfg) ==
    IF k = 0 THEN rows
    ELSE LET done == SecondPass_Split(rows, sorted, k - 1, cfg)
             subtitle == sorted[k]
         IN  [r \in 1..Len(done) |->
                IF subtitle.start < done[r].endTime /\ done[r].startTime < subtitle.end
                THEN [done[r] EXCEPT !.subtitles =
                        Append(@, MakeSegment(subtitle, k - 1, done[r], cfg))]
                ELSE done[r]]

\* Second pass: sortedSubtitles.forEach over the first k sorted subtitles.
RECURSIVE SecondPass(_, _, _, _)
SecondPass(rows, sorted, k, cfg) ==
    IF k = 0 THEN rows
    ELSE LET done == SecondPass(rows, sorted, k - 1, cfg)
             subtitle == sorted[k]
             r == TargetRow(done, subtitle)
         IN  IF r = 0 THEN done
             ELSE [done EXCEPT ![r].subtitles =
                      Append(@, MakeSegment(subtitle, k - 1, done[r], cfg))]

\* rows[0].startTime is read for a subtitle no row contains; with no rows
\* at all rows[0] is undefined and the read throws a TypeError.
SecondPassThrows(rows, sorted) ==
    rows = <<>> /\ sorted # <<>>

\* Mutant of CreateRows: an absent waveform is laid out as an empty one
\* (waveform?.length ?? 0) instead of returning at once.
CreateRows_AbsentAsEmpty(variant, wf, subs, cfg) ==
    LET sorted == IF subs = Absent THEN <<>> ELSE SortByStart(subs.value)
    IN  IF wf = Absent
        THEN IF SecondPassThrows(<<>>, sorted)
             THEN [status |-> "TypeError", rows |-> <<>>]
             ELSE [status |-> "ok", rows |-> <<>>]
        ELSE
          LET totalPoints == Len(wf.value)
          IN  IF FirstPassHangs(totalPoints, cfg)
              THEN [status |-> "hang", rows |-> <<>>]
              ELSE
                LET rows == IF variant = "a"
                            THEN FirstPass(0, totalPoints, cfg)
                            ELSE FirstPassAlt(totalPoints, cfg)
                IN  IF SecondPassThrows(rows, sorted)
                    THEN [status |-> "TypeError", rows |-> <<>>]
                    ELSE [status |-> "ok",
                          rows |-> SecondPass(rows, sorted, Len(sorted), cfg)]

\* Mutant of NewRows: the array is declared outside the function and kept
\* between calls, so a call starts from the rows the call before left.
NewRows_Kept == layout.rows

\* const rows: TimelineRow[] = []: every call starts from a new, empty array.
NewRows == <<>>

\* if (!waveform) return []; then the two passes.
CreateRows(variant, wf, subs, cfg) ==
    IF wf = Absent THEN [status |-> "ok", rows |-> <<>>]
    ELSE
      LET totalPoints == Len(wf.value)
          sorted == IF subs = Absent THEN <<>> ELSE SortByStart(subs.value)
      IN  IF FirstPassHangs(totalPoints, cfg)
          THEN [status |-> "hang", rows |-> <<>>]
          ELSE
            LET rows == NewRows \o (IF variant = "a"
                                    THEN FirstPass(0, totalPoints, cfg)
                                    ELSE FirstPassAlt(totalPoints, cfg))
            IN  IF SecondPassThrows(rows, sorted)
                THEN [status |-> "TypeError", rows |-> <<>>]
                ELSE [status |-> "ok",
                      rows |-> SecondPass(rows, sorted, Len(sorted), cfg)]

createTimelineRows(wf, subs, cfg) == CreateRows("a", wf, subs, cfg)
createTimelineRowsAlt(wf, subs, cfg) == CreateRows("b", wf, subs, cfg)

(***************************************************************************)
(* Specification of createTimelineRows: one call on enumerated arguments   *)
(***************************************************************************)
RowCues ==
    {[id |-> i, start |-> s, end |-> s + d, text |-> t, settings |-> Undefined] :
        i \in RowCueIds, s \in -2..MaxCueStart,
        d \in RowCueDurations, t \in RowCueTexts}

RowCueLists ==
    UNION {[1..n -> RowCues] : n \in 0..MaxRowCues}

Waveforms == {[i \in 1..n |-> 0] : n \in 0..MaxPoints}

Configs ==
    {[barWidth |-> sc.barWidth, pointsPerRow |-> p, msPerPoint |-> sc.msPerPoint] :
        sc \in Scales, p \in 1..MaxPointsPerRow}

NoLayout == [variant |-> "none", status |-> "none", rows |-> <<>>]
\* No call was made yet.
NoCall   == [op |-> "none", pc |-> "returned", pre |-> Null]

AsyncIdle ==
    /\ blobs = {}
    /\ loads = <<>>
    /\ isLoading = FALSE
    /\ pending = <<>>

RoundIdle ==
    /\ boundary = 0
    /\ rounded = Absent

StoreIdle ==
    /\ currentProject = Null
    /\ persisted = Null
    /\ calls = <<>>

InitRows ==
    /\ waveform \in {Given(w) : w \in Waveforms} \cup {Absent}
    /\ cues \in {Given(l) : l \in RowCueLists} \cup {Absent}
    /\ config \in Configs
    /\ layout = NoLayout
    /\ StoreIdle
    /\ RoundIdle
    /\ AsyncIdle

\* Mutant of Layout: the cue list handed in is sorted in place
\* (subtitles.sort instead of [...subtitles].sort).
Layout_SortsInPlace ==
    /\ layout = NoLayout
    /\ layout' = [variant |-> "a"] @@ createTimelineRows(waveform, cues, config)
    /\ cues' = IF cues.given THEN Given(SortByStart(cues.value)) ELSE cues
    /\ UNCHANGED <<waveform, config>>
    /\ UNCHANGED storeVars
    /\ UNCHANGED roundVars
    /\ UNCHANGED asyncVars

\* A layout pass with the first variant of createTimelineRows.
Layout ==
    /\ layout = NoLayout
    /\ layout' = [variant |-> "a"] @@ createTimelineRows(waveform, cues, config)
    /\ UNCHANGED <<waveform, cues, config>>
    /\ UNCHANGED storeVars
    /\ UNCHANGED roundVars
    /\ UNCHANGED asyncVars

\* A layout pass with the second variant of createTimelineRows.
LayoutAlt ==
    /\ layout = NoLayout
    /\ layout' = [variant |-> "b"] @@ createTimelineRowsAlt(waveform, cues, config)
    /\ UNCHANGED <<waveform, cues, config>>
    /\ UNCHANGED storeVars
    /\ UNCHANGED roundVars
    /\ UNCHANGED asyncVars

NextRows == Layout \/ LayoutAlt

SpecRows == InitRows /\ [][NextRows]_vars

(***************************************************************************)
(* Specification of createTimelineRows on arguments nothing has validated: *)
(* the function checks neither the cues nor the config, so a cue may end   *)
(* before it starts and pointsPerRow or barWidth may be zero or negative.  *)
(* msPerPoint stays positive: dividing by it is only modelled for m > 0.   *)
(***************************************************************************)
UnvalidatedCues ==
    {[id |-> Undefined, start |-> s, end |-> e, text |-> "a", settings |-> Undefined] :
        s \in -2..2, e \in -2..2}

UnvalidatedCueLists == {<<>>} \cup {<<c>> : c \in UnvalidatedCues}

UnvalidatedConfigs ==
    {[barWidth |-> b, pointsPerRow |-> p, msPerPoint |-> m] :
        b \in -1..2, p \in -1..MaxPointsPerRow, m \in {1, 2}}

InitRowsUnvalidated ==
    /\ waveform \in {Given(w) : w \in Waveforms} \cup {Absent}
    /\ cues \in {Given(l) : l \in UnvalidatedCueLists} \cup {Absent}
    /\ config \in UnvalidatedConfigs
    /\ layout = NoLayout
    /\ StoreIdle
    /\ RoundIdle
    /\ AsyncIdle

SpecRowsUnvalidated == InitRowsUnvalidated /\ [][NextRows]_vars

(***************************************************************************)
(* Specification of repeated layout: the caller (a useMemo of the timeline *)
(* component) calls createTimelineRows again on the arguments it holds     *)
(***************************************************************************)
UnvalidatedCuePairs == {<<c, d>> : c \in UnvalidatedCues, d \in UnvalidatedCues}

InitRowsRepeated ==
    /\ waveform \in {Given(w) : w \in Waveforms} \cup {Absent}
    /\ cues \in {Given(l) : l \in UnvalidatedCueLists \cup UnvalidatedCuePairs}
                  \cup {Absent}
    /\ config \in Configs
    /\ layout = NoLayout
    /\ StoreIdle
    /\ RoundIdle
    /\ AsyncIdle

\* A second call of the same variant on the same arguments.
Relayout ==
    /\ layout.variant \in {"a", "b"}
    /\ layout' = [variant |-> layout.variant \o "-again"]
                    @@ CreateRows(layout.variant, waveform, cues, config)
    /\ UNCHANGED <<waveform, cues, config>>
    /\ UNCHANGED storeVars
    /\ UNCHANGED roundVars
    /\ UNCHANGED asyncVars

NextRowsRepeated == Layout \/ LayoutAlt \/ Relayout

SpecRowsRepeated == InitRowsRepeated /\ [][NextRowsRepeated]_vars

(***************************************************************************)
(* Project store: adjustSubtitleTiming                                     *)
(***************************************************************************)
MaxCues == 3          \* most cues in the stored collection

\* Mutant of roundToNearest100ms: Math.floor in place of Math.round.
roundToNearest100ms_Floor(time) == (time \div 100) * 100

\* Mutant of roundToNearest100ms: a tie goes to the smaller multiple.
roundToNearest100ms_HalfDown(time) == ((time + 49) \div 100) * 100

\* const roundToNearest100ms = (time) => Math.round(time / 100) * 100;
\* Math.round rounds to the nearest integer, a tie towards +Infinity.
roundToNearest100ms(time) == ((time + 50) \div 100) * 100

\* subtitles.findIndex(s => s.start === c.start && s.end === c.end &&
\*                          s.text === c.text), 1-based; 0 stands for -1.
FindSortedIndex(subtitles, c) ==
    LET hits == {k \in 1..Len(subtitles) :
                    /\ subtitles[k].start = c.start
                    /\ subtitles[k].end = c.end
                    /\ subtitles[k].text = c.text}
    IN  IF hits = {} THEN 0
        ELSE CHOOSE k \in hits : \A j \in hits : k <= j

\* Mutant of AdjustStart: a start at or beyond the end is clamped to 100 ms
\* before the end instead of being rejected.
AdjustStart_Clamped(subtitles, sortedIndex, currentSubtitle, amount) ==
    LET requested == Max(0, roundToNearest100ms(currentSubtitle.start + amount))
        newStartTime == IF requested >= currentSubtitle.end
                        THEN currentSubtitle.end - 100 ELSE requested
        collides == /\ amount < 0
                    /\ sortedIndex > 1
                    /\ newStartTime < subtitles[sortedIndex - 1].end
        trimmed == IF collides
                   THEN [subtitles EXCEPT ![sortedIndex - 1].end = newStartTime]
                   ELSE subtitles
    IN  [ok |-> TRUE,
         subtitles |-> [trimmed EXCEPT ![sortedIndex] =
                           [currentSubtitle EXCEPT !.start = newStartTime]]]

\* The adjustType === 'startTime' branch on the sorted copy.
\* [ok |-> FALSE] is the early "return false".
AdjustStart(subtitles, sortedIndex, currentSubtitle, amount) ==
    LET newStartTime == Max(0, roundToNearest100ms(currentSubtitle.start + amount))
        collides == /\ amount < 0
                    /\ sortedIndex > 1
                    /\ newStartTime < subtitles[sortedIndex - 1].end
        trimmed == IF collides
                   THEN [subtitles EXCEPT ![sortedIndex - 1].end = newStartTime]
                   ELSE subtitles
    IN  IF newStartTime >= currentSubtitle.end
        THEN [ok |-> FALSE, subtitles |-> subtitles]
        ELSE [ok |-> TRUE,
              subtitles |-> [trimmed EXCEPT ![sortedIndex] =
                                [currentSubtitle EXCEPT !.start = newStartTime]]]

\* Mutant of AdjustEnd: on a collision the edited cue is cut back to the start
\* of the next cue, which is left alone.
AdjustEnd_TargetCut(subtitles, sortedIndex, currentSubtitle, amount) ==
    LET requested == roundToNearest100ms(currentSubtitle.end + amount)
        collides == /\ amount > 0
                    /\ sortedIndex < Len(subtitles)
                    /\ requested > subtitles[sortedIndex + 1].start
        newEndTime == IF collides THEN subtitles[sortedIndex + 1].start
                      ELSE requested
    IN  IF newEndTime <= currentSubtitle.start
        THEN [ok |-> FALSE, subtitles |-> subtitles]
        ELSE [ok |-> TRUE,
              subtitles |-> [subtitles EXCEPT ![sortedIndex] =
                                [currentSubtitle EXCEPT !.end = newEndTime]]]

\* Mutant of AdjustEnd: the following cue is trimmed whenever the new end lies
\* beyond its start, also when the end was moved earlier.
AdjustEnd_AnyDirection(subtitles, sortedIndex, currentSubtitle, amount) ==
    LET newEndTime == roundToNearest100ms(currentSubtitle.end + amount)
        collides == /\ sortedIndex < Len(subtitles)
                    /\ newEndTime > subtitles[sortedIndex + 1].start
        trimmed == IF collides
                   THEN [subtitles EXCEPT ![sortedIndex + 1].start = newEndTime]
                   ELSE subtitles
    IN  IF newEndTime <= currentSubtitle.start
        THEN [ok |-> FALSE, subtitles |-> subtitles]
        ELSE [ok |-> TRUE,
              subtitles |-> [trimmed EXCEPT ![sortedIndex] =
                                [currentSubtitle EXCEPT !.end = newEndTime]]]

\* The else ('endTime') branch on the sorted copy.
AdjustEnd(subtitles, sortedIndex, currentSubtitle, amount) ==
    LET newEndTime == roundToNearest100ms(currentSubtitle.end + amount)
        collides == /\ amount > 0
                    /\ sortedIndex < Len(subtitles)
                    /\ newEndTime > subtitles[sortedIndex + 1].start
        trimmed == IF collides
                   THEN [subtitles EXCEPT ![sortedIndex + 1].start = newEndTime]
                   ELSE subtitles
    IN  IF newEndTime <= currentSubtitle.start
        THEN [ok |-> FALSE, subtitles |-> subtitles]
        ELSE [ok |-> TRUE,
              subtitles |-> [trimmed EXCEPT ![sortedIndex] =
                                [currentSubtitle EXCEPT !.end = newEndTime]]]

\* Mutant of AdjustTiming: only a negative index is refused; an index past
\* the end is taken for the last cue.
AdjustTiming_NoUpperCheck(stored, subtitleIndex, adjustType, amount) ==
    IF subtitleIndex < 0 \/ stored = <<>>
    THEN [ok |-> FALSE, subtitles |-> stored]
    ELSE LET currentSubtitle == stored[Min(subtitleIndex + 1, Len(stored))]
             subtitles == SortByStart(stored)
             sortedIndex == FindSortedIndex(subtitles, currentSubtitle)
         IN  IF adjustType = "startTime"
             THEN AdjustStart(subtitles, sortedIndex, currentSubtitle, amount)
             ELSE AdjustEnd(subtitles, sortedIndex, currentSubtitle, amount)

\* The body of adjustSubtitleTiming on a copy of the stored array
\* (subtitleIndex is 0-based, as in the source).
AdjustTiming(stored, subtitleIndex, adjustType, amount) ==
    IF subtitleIndex < 0 \/ subtitleIndex >= Len(stored)
    THEN [ok |-> FALSE, subtitles |-> stored]
    ELSE LET currentSubtitle == stored[subtitleIndex + 1]
             subtitles == SortByStart(stored)
             sortedIndex == FindSortedIndex(subtitles, currentSubtitle)
         IN  IF adjustType = "startTime"
             THEN AdjustStart(subtitles, sortedIndex, currentSubtitle, amount)
             ELSE AdjustEnd(subtitles, sortedIndex, currentSubtitle, amount)

\* updateProject({...currentProject, data: {...data, subtitles}}): the record
\* handed to set() and returned.
WithSubtitles(project, subtitles) ==
    [project EXCEPT !.data.subtitles = Given(subtitles)]

HasSubtitles(project) ==
    project # Null /\ project.data.subtitles # Absent

AdjustTypes == {"startTime", "endTime"}
Amounts == {-200, -100, -40, 50, 100, 200}

MaxCalls == 3         \* most calls made in a behaviour

\* An operation handed to the key-value store: get, set or del of the
\* project record ("projects/<id>") or of a media blob ("audio/<id>"), and
\* the call that awaits its completion (its place in calls; 0 when the
\* promise is dropped).
KvOp(op, kind, id, value, awaitedBy) ==
    [op |-> op, kind |-> kind, id |-> id, value |-> value, awaitedBy |-> awaitedBy]

\* updateProject(project): set() is called and its promise dropped; the
\* record is returned without waiting for the store.
updateProject(project) ==
    Append(pending, KvOp("set", "project", project.id, project, 0))

\* What a call finds when it is made: currentProject, the stored record and
\* the position of each call made before it.
AtCall ==
    [currentProject |-> currentProject, persisted |-> persisted,
     pcs |-> [j \in 1..Len(calls) |-> calls[j].pc]]

\* The key-value store completes its oldest operation: a set or del takes
\* effect on the key it names (persisted is the record of the one project
\* of a behaviour; an operation on the key of another project leaves it),
\* a get delivers the record it finds, and the promise of the operation
\* settles, so that the call awaiting it can go on.
Settle ==
    /\ pending # <<>>
    /\ LET o == Head(pending)
       IN  /\ pending' = Tail(pending)
           /\ persisted' = IF o.kind = "project" /\ o.op = "set"
                               /\ (persisted = Null \/ persisted.id = o.id)
                            THEN o.value
                            ELSE IF o.kind = "project" /\ o.op = "del"
                                    /\ persisted.id = o.id
                            THEN Null
                            ELSE persisted
           /\ blobs' = IF o.kind = "audio" /\ o.op = "set" THEN blobs \cup {o.id}
                        ELSE IF o.kind = "audio" /\ o.op = "del" THEN blobs \ {o.id}
                        ELSE blobs
           /\ calls' = IF o.awaitedBy = 0 THEN calls
                        ELSE [calls EXCEPT ![o.awaitedBy] =
                                [@ EXCEPT
                                   !.pc = IF o.op = "get" /\ o.kind = "project"
                                          THEN "read"
                                          ELSE IF o.op = "get" THEN "readBlob"
                                          ELSE IF o.op = "set" THEN "stored"
                                          ELSE IF o.kind = "project" THEN "deleted"
                                          ELSE "returned",
                                   !.project = IF o.op = "get" /\ o.kind = "project"
                                               THEN IF persisted.id = o.id
                                                    THEN persisted ELSE Null
                                               ELSE @]]
    /\ UNCHANGED currentProject
    /\ UNCHANGED <<loads, isLoading>>
    /\ UNCHANGED rowVars
    /\ UNCHANGED roundVars

\* The end of call k after "await updateProject(...)" (or, in
\* importProjectData, "await importProjectFromJSON(...)"):
\* setKey("currentProject", updatedProject); return true.
SetCurrentProject(k) ==
    /\ k \in 1..Len(calls)
    /\ calls[k].pc = "awaiting"
    /\ currentProject' = calls[k].project
    /\ calls' = [calls EXCEPT ![k].pc = "returned"]
    /\ UNCHANGED persisted
    /\ UNCHANGED rowVars
    /\ UNCHANGED roundVars
    /\ UNCHANGED asyncVars

\* projectActions.adjustSubtitleTiming(subtitleIndex, adjustType, amount) up
\* to "await updateProject(...)": the new collection is computed from
\* currentProject and the record is handed to set().  A call that finds no
\* cue or refuses the adjustment returns false at once.
AdjustSubtitleTiming(subtitleIndex, adjustType, amount) ==
    LET stored == IF HasSubtitles(currentProject)
                  THEN currentProject.data.subtitles.value ELSE <<>>
        res == IF HasSubtitles(currentProject)
               THEN AdjustTiming(stored, subtitleIndex, adjustType, amount)
               ELSE [ok |-> FALSE, subtitles |-> stored]
        updatedProject == WithSubtitles(currentProject, res.subtitles)
    IN  /\ Len(calls) < MaxCalls
        /\ calls' = Append(calls,
                     [op |-> "adjustSubtitleTiming", subtitleIndex |-> subtitleIndex,
                      adjustType |-> adjustType, amount |-> amount,
                      pc |-> IF res.ok THEN "awaiting" ELSE "returned",
                      project |-> IF res.ok THEN updatedProject ELSE currentProject,
                      result |-> res.ok, pre |-> AtCall])
        /\ pending' = IF res.ok THEN updateProject(updatedProject) ELSE pending
        /\ UNCHANGED <<currentProject, persisted>>
        /\ UNCHANGED <<blobs, loads, isLoading>>
        /\ UNCHANGED rowVars
        /\ UNCHANGED roundVars

(***************************************************************************)
(* Specification of the store: a project whose cue collection was imported *)
(* (importSubtitles and importProjectData accept any cue list), then one   *)
(* timing adjustment with enumerated arguments                             *)
(***************************************************************************)
Cue(id, start, end, text, settings) ==
    [id |-> id, start |-> start, end |-> end, text |-> text, settings |-> settings]

\* Cues on the 100 ms grid, cues with start >= end among them, and two cues
\* that carry an id and settings.
StoreCues ==
    {Cue(Undefined, s, e, "a", Undefined) : s \in {0, 100, 200}, e \in {100, 200, 300}}
    \cup {Cue("c1", 0, 100, "b", "line:0"), Cue("c1", 100, 200, "b", "line:0")}

StoreCollections == UNION {[1..n -> StoreCues] : n \in 0..MaxCues}

Project(subtitles) == [id |-> "p1", data |-> [subtitles |-> subtitles]]

RowsIdle ==
    /\ waveform = Absent
    /\ cues = Absent
    /\ config = [barWidth |-> 8, pointsPerRow |-> 150, msPerPoint |-> 100]
    /\ layout = NoLayout

Init ==
    /\ currentProject \in {Project(Given(l)) : l \in StoreCollections}
                            \cup {Project(Absent), Null}
    /\ persisted = currentProject
    /\ calls = <<>>
    /\ RowsIdle
    /\ RoundIdle
    /\ AsyncIdle

\* One call of adjustSubtitleTiming, from its start to its return.
Next ==
    \/ /\ calls = <<>>
       /\ \E i \in -1..MaxCues, t \in AdjustTypes, a \in Amounts :
             AdjustSubtitleTiming(i, t, a)
    \/ \E k \in 1..MaxCalls : SetCurrentProject(k)
    \/ Settle

Spec == Init /\ [][Next]_vars

(***************************************************************************)
(* Specification of an adjustment on a collection in which cues share      *)
(* their start, end and text and differ in id and settings                 *)
(***************************************************************************)
TwinCues ==
    {Cue("c1", 0, 100, "b", "line:0"), Cue("c2", 0, 100, "b", Undefined),
     Cue(Undefined, 100, 200, "a", Undefined)}

TwinCollections == UNION {[1..n -> TwinCues] : n \in 0..MaxCues}

InitTwins ==
    /\ currentProject \in {Project(Given(l)) : l \in TwinCollections}
    /\ persisted = currentProject
    /\ calls = <<>>
    /\ RowsIdle
    /\ RoundIdle
    /\ AsyncIdle

SpecTwins == InitTwins /\ [][Next]_vars

(***************************************************************************)
(* Specification of the quantization: roundToNearest100ms applied once to  *)
(* an enumerated boundary value (currentSubtitle.start + amount or         *)
(* currentSubtitle.end + amount; the stored times and the amount are not   *)
(* validated, so the value may be negative and off the 100 ms grid)        *)
(***************************************************************************)
MaxBoundary == 250    \* largest magnitude of a boundary value

InitRound ==
    /\ boundary \in -MaxBoundary..MaxBoundary
    /\ rounded = Absent
    /\ StoreIdle
    /\ RowsIdle
    /\ AsyncIdle

\* roundToNearest100ms(boundary)
Quantize ==
    /\ rounded = Absent
    /\ rounded' = Given(roundToNearest100ms(boundary))
    /\ UNCHANGED boundary
    /\ UNCHANGED rowVars
    /\ UNCHANGED storeVars
    /\ UNCHANGED asyncVars

NextRound == Quantize

SpecRound == InitRound /\ [][NextRound]_vars

(***************************************************************************)
(* Project store: updateSubtitleText                                       *)
(***************************************************************************)

\* The white space String.prototype.trim removes, of the characters that
\* occur in the edited texts.
IsWhiteSpace(ch) == ch \in {" ", "\n", "\t"}

RECURSIVE TrimStart(_)
TrimStart(s) ==
    IF s = "" THEN ""
    ELSE IF IsWhiteSpace(Head(s)) THEN TrimStart(Tail(s))
    ELSE s

RECURSIVE TrimEnd(_)
TrimEnd(s) ==
    IF s = "" THEN ""
    ELSE IF IsWhiteSpace(SubSeq(s, Len(s), Len(s)))
         THEN TrimEnd(SubSeq(s, 1, Len(s) - 1))
    ELSE s

\* text.trim()
Trim(s) == TrimEnd(TrimStart(s))

\* Mutant of IsBlank: only the empty string deletes the cue (no trim).
IsBlank_NoTrim(newText) == newText = ""

\* newText.trim() === ""
IsBlank(newText) == Trim(newText) = ""

\* Positions where two consecutive newlines start.
BlankLinesAt(s) == {i \in 1..(Len(s) - 1) : SubSeq(s, i, i + 1) = "\n\n"}

\* newText.includes("\n\n")
IncludesBlankLine(s) == BlankLinesAt(s) # {}

\* newText.split("\n\n"): cut at each match, left to right.
RECURSIVE SplitOnBlankLines(_)
SplitOnBlankLines(s) ==
    IF BlankLinesAt(s) = {} THEN <<s>>
    ELSE LET i == CHOOSE i \in BlankLinesAt(s) : \A j \in BlankLinesAt(s) : i <= j
         IN  <<SubSeq(s, 1, i - 1)>> \o SplitOnBlankLines(SubSeq(s, i + 2, Len(s)))

\* .map(part => part.trim()).filter(part => part.length > 0)
NonEmptyParts(pieces) ==
    SelectSeq([i \in 1..Len(pieces) |-> Trim(pieces[i])], LAMBDA part : Len(part) > 0)

\* parts.reduce((sum, part) => sum + part.length, 0)
RECURSIVE TotalChars(_)
TotalChars(parts) ==
    IF parts = <<>> THEN 0
    ELSE Len(parts[Len(parts)]) + TotalChars(SubSeq(parts, 1, Len(parts) - 1))

\* Mutant of SegmentDuration: every part gets an equal share of the duration.
SegmentDuration_EqualShares(totalDuration, part, parts) ==
    totalDuration \div Len(parts)

\* proportion = part.length / totalChars;
\* segmentDuration = totalDuration * proportion.
\* The exact quotient: an integer where it is one, a fraction otherwise (the
\* enumerated cues and texts only give integers, which the doubles of the
\* source compute exactly).
SegmentDuration(totalDuration, part, parts) ==
    LET q == Frac(totalDuration * Len(part), TotalChars(parts))
    IN  IF q.den = 1 THEN q.num ELSE q

\* The for loop over parts: the first n new cues.  They copy the settings of
\* the cue that is split, not its id.
RECURSIVE NewSubtitles(_, _, _)
NewSubtitles(currentSubtitle, parts, n) ==
    IF n = 0 THEN <<>>
    ELSE LET newSubtitles == NewSubtitles(currentSubtitle, parts, n - 1)
             part == parts[n]
             totalDuration == currentSubtitle.end - currentSubtitle.start
             segmentDuration == SegmentDuration(totalDuration, part, parts)
             start == IF n = 1 THEN currentSubtitle.start
                      ELSE newSubtitles[n - 1].end
             end == IF n = Len(parts) THEN currentSubtitle.end
                    ELSE start + segmentDuration
         IN  Append(newSubtitles,
                    [id |-> Undefined, start |-> start, end |-> end,
                     text |-> part, settings |-> currentSubtitle.settings])

\* Mutant of Splice: the new cues are appended at the end of the array.
Splice_AtEnd(subtitles, subtitleIndex, items) ==
    SubSeq(subtitles, 1, subtitleIndex)
        \o SubSeq(subtitles, subtitleIndex + 2, Len(subtitles))
        \o items

\* subtitles.splice(subtitleIndex, 1, ...items), subtitleIndex 0-based
Splice(subtitles, subtitleIndex, items) ==
    SubSeq(subtitles, 1, subtitleIndex)
        \o items
        \o SubSeq(subtitles, subtitleIndex + 2, Len(subtitles))

\* The body of updateSubtitleText on a copy of the stored array.
UpdateText(stored, subtitleIndex, newText) ==
    IF subtitleIndex < 0 \/ subtitleIndex >= Len(stored)
    THEN [ok |-> FALSE, subtitles |-> stored]
    ELSE LET currentSubtitle == stored[subtitleIndex + 1]
             parts == NonEmptyParts(SplitOnBlankLines(newText))
         IN  [ok |-> TRUE,
              subtitles |->
                IF IsBlank(newText)
                THEN Splice(stored, subtitleIndex, <<>>)
                ELSE IF IncludesBlankLine(newText)
                THEN IF Len(parts) > 1
                     THEN Splice(stored, subtitleIndex,
                                 NewSubtitles(currentSubtitle, parts, Len(parts)))
                     ELSE [stored EXCEPT ![subtitleIndex + 1].text =
                              IF parts = <<>> THEN "" ELSE parts[1]]
                ELSE [stored EXCEPT ![subtitleIndex + 1].text = newText]]

\* projectActions.updateSubtitleText(subtitleIndex, newText) up to
\* "await updateProject(...)".
UpdateSubtitleText(subtitleIndex, newText) ==
    LET stored == IF HasSubtitles(currentProject)
                  THEN currentProject.data.subtitles.value ELSE <<>>
        res == IF HasSubtitles(currentProject)
               THEN UpdateText(stored, subtitleIndex, newText)
               ELSE [ok |-> FALSE, subtitles |-> stored]
        updatedProject == WithSubtitles(currentProject, res.subtitles)
    IN  /\ Len(calls) < MaxCalls
        /\ calls' = Append(calls,
                     [op |-> "updateSubtitleText", subtitleIndex |-> subtitleIndex,
                      newText |-> newText,
                      pc |-> IF res.ok THEN "awaiting" ELSE "returned",
                      project |-> IF res.ok THEN updatedProject ELSE currentProject,
                      result |-> res.ok, pre |-> AtCall])
        /\ pending' = IF res.ok THEN updateProject(updatedProject) ELSE pending
        /\ UNCHANGED <<currentProject, persisted>>
        /\ UNCHANGED <<blobs, loads, isLoading>>
        /\ UNCHANGED rowVars
        /\ UNCHANGED roundVars

(***************************************************************************)
(* Specification of a text edit: an imported cue collection, then one      *)
(* updateSubtitleText with enumerated arguments                            *)
(***************************************************************************)

\* A cue with an id and settings, a plain cue, a cue that ends before it
\* starts and a cue of no duration.
EditCues ==
    {Cue("c1", 0, 1000, "a", "line:0"), Cue(Undefined, 1000, 1200, "b", Undefined),
     Cue(Undefined, 200, 100, "a", Undefined), Cue(Undefined, 300, 300, "c", Undefined)}

EditCollections == UNION {[1..n -> EditCues] : n \in 0..MaxCues}

\* Blank texts, texts without a blank line, and texts that one or more blank
\* lines cut into one, two or three parts.
EditTexts ==
    {"", " \n", "\n\n", "A", " A", "A\nB", "A\n\n", "A\n\nB", "AAA\n\nBB",
     "A\n\n\n\nB", " A \n\n\n B\n\nCC"}

InitEdit ==
    /\ currentProject \in {Project(Given(l)) : l \in EditCollections}
                            \cup {Project(Absent)}
    /\ persisted = currentProject
    /\ calls = <<>>
    /\ RowsIdle
    /\ RoundIdle
    /\ AsyncIdle

\* One call of updateSubtitleText, from its start to its return.
NextEdit ==
    \/ /\ calls = <<>>
       /\ \E i \in -1..MaxCues, t \in EditTexts : UpdateSubtitleText(i, t)
    \/ \E k \in 1..MaxCalls : SetCurrentProject(k)
    \/ Settle

SpecEdit == InitEdit /\ [][NextEdit]_vars

(***************************************************************************)
(* Project store: renameProject, importWaveform, importSubtitles and       *)
(* importAudio                                                             *)
(***************************************************************************)
MaxImports == 2       \* most importAudio calls made in a behaviour

\* A project record with a title, and in its data a waveform, a cue
\* collection and a reference to a media blob (createdAt and updatedAt are
\* not modelled).
AudioProject(subtitles, audioBlobId) ==
    [id |-> "p1", title |-> "T",
     data |-> [waveform |-> Absent, subtitles |-> subtitles,
               audioBlobId |-> audioBlobId]]

\* projectActions.renameProject(title) up to "await updateProject(...)".
\* (Without a current project, or with a title that is blank after
\* trimming, the action returns and does nothing.)
RenameProject(title) ==
    LET updatedProject == [currentProject EXCEPT !.title = title]
    IN  /\ Len(calls) < MaxCalls
        /\ currentProject # Null
        /\ Trim(title) # ""
        /\ calls' = Append(calls,
                     [op |-> "renameProject", title |-> title, pc |-> "awaiting",
                      project |-> updatedProject, result |-> TRUE, pre |-> AtCall])
        /\ pending' = updateProject(updatedProject)
        /\ UNCHANGED <<currentProject, persisted>>
        /\ UNCHANGED <<blobs, loads, isLoading>>
        /\ UNCHANGED rowVars
        /\ UNCHANGED roundVars

\* projectActions.importWaveform(waveform) up to "await updateProject(...)"
ImportWaveform(wf) ==
    LET ok == currentProject # Null
        updatedProject == [currentProject EXCEPT !.data.waveform = Given(wf)]
    IN  /\ Len(calls) < MaxCalls
        /\ calls' = Append(calls,
                     [op |-> "importWaveform",
                      pc |-> IF ok THEN "awaiting" ELSE "returned",
                      project |-> IF ok THEN updatedProject ELSE currentProject,
                      result |-> ok, pre |-> AtCall])
        /\ pending' = IF ok THEN updateProject(updatedProject) ELSE pending
        /\ UNCHANGED <<currentProject, persisted>>
        /\ UNCHANGED <<blobs, loads, isLoading>>
        /\ UNCHANGED rowVars
        /\ UNCHANGED roundVars

\* projectActions.importSubtitles(subtitles) up to "await updateProject(...)"
ImportSubtitles(subtitles) ==
    LET ok == currentProject # Null
        updatedProject == WithSubtitles(currentProject, subtitles)
    IN  /\ Len(calls) < MaxCalls
        /\ calls' = Append(calls,
                     [op |-> "importSubtitles",
                      pc |-> IF ok THEN "awaiting" ELSE "returned",
                      project |-> IF ok THEN updatedProject ELSE currentProject,
                      result |-> ok, pre |-> AtCall])
        /\ pending' = IF ok THEN updateProject(updatedProject) ELSE pending
        /\ UNCHANGED <<currentProject, persisted>>
        /\ UNCHANGED <<blobs, loads, isLoading>>
        /\ UNCHANGED rowVars
        /\ UNCHANGED roundVars

\* uuidv4(): an id that was never drawn before; the n-th importAudio call
\* of a behaviour draws "blob-n".
BlobId(n) == "blob-" \o ToString(n)
FreshBlobId ==
    BlobId(Cardinality({k \in 1..Len(calls) : calls[k].op = "importAudio"}) + 1)

\* {...currentProject, data: {...currentProject.data, audioBlobId}}
WithAudio(project, audioBlobId) ==
    [project EXCEPT !.data.audioBlobId = audioBlobId]

\* importAudio up to "await set(audioBlobKey, audioBlob)": currentProject is
\* read and kept in a local constant, the blob is handed to set().
\* (Without a current project the action returns false and does nothing.)
ImportAudioStart ==
    /\ Len(calls) < MaxCalls
    /\ Cardinality({k \in 1..Len(calls) : calls[k].op = "importAudio"}) < MaxImports
    /\ currentProject # Null
    /\ calls' = Append(calls,
                 [op |-> "importAudio", audioBlobId |-> FreshBlobId,
                  pc |-> "storing", project |-> currentProject,
                  result |-> TRUE, pre |-> AtCall])
    /\ pending' = Append(pending,
                         KvOp("set", "audio", FreshBlobId, Null, Len(calls) + 1))
    /\ UNCHANGED <<currentProject, persisted>>
    /\ UNCHANGED <<blobs, loads, isLoading>>
    /\ UNCHANGED rowVars
    /\ UNCHANGED roundVars

\* importAudio (call k) from the completion of the blob's set() to
\* "await updateProject(...)": the project read at the start, with the id of
\* the blob, is handed to set().  The call ends with SetCurrentProject.
ImportAudioUpdate(k) ==
    /\ k \in 1..Len(calls)
    /\ calls[k].op = "importAudio"
    /\ calls[k].pc = "stored"
    /\ LET updatedProject == WithAudio(calls[k].project, calls[k].audioBlobId)
       IN  /\ pending' = updateProject(updatedProject)
           /\ calls' = [calls EXCEPT ![k] =
                          [@ EXCEPT !.pc = "awaiting", !.project = updatedProject]]
    /\ UNCHANGED <<currentProject, persisted>>
    /\ UNCHANGED <<blobs, loads, isLoading>>
    /\ UNCHANGED rowVars
    /\ UNCHANGED roundVars

(***************************************************************************)
(* Storage: importProjectData (importProjectFromJSON) and deleteProject    *)
(***************************************************************************)

\* projectActions.importProjectData(jsonData) up to "await getProject(id)"
\* in importProjectFromJSON, data the "data" member of the parsed JSON.
\* (Without a current project the action returns false and does nothing.)
ImportProjectData(data) ==
    /\ Len(calls) < MaxCalls
    /\ currentProject # Null
    /\ calls' = Append(calls,
                 [op |-> "importProjectData", data |-> data, pc |-> "reading",
                  project |-> Null, result |-> FALSE, pre |-> AtCall])
    /\ pending' = Append(pending,
                         KvOp("get", "project", currentProject.id, Null,
                              Len(calls) + 1))
    /\ UNCHANGED <<currentProject, persisted>>
    /\ UNCHANGED <<blobs, loads, isLoading>>
    /\ UNCHANGED rowVars
    /\ UNCHANGED roundVars

\* importProjectFromJSON (call k) from the completion of getProject(id) to
\* "await updateProject(updatedProject)": without a record it throws
\* "Project not found" and importProjectData returns false; otherwise the
\* record with the imported data is handed to set().
ImportProjectFromJSON(k) ==
    /\ k \in 1..Len(calls)
    /\ calls[k].op = "importProjectData"
    /\ calls[k].pc = "read"
    /\ IF calls[k].project = Null
       THEN /\ calls' = [calls EXCEPT ![k] =
                           [@ EXCEPT !.pc = "returned", !.result = FALSE]]
            /\ UNCHANGED pending
       ELSE LET updatedProject == [calls[k].project EXCEPT !.data = calls[k].data]
            IN  /\ calls' = [calls EXCEPT ![k] =
                               [@ EXCEPT !.pc = "awaiting", !.result = TRUE,
                                         !.project = updatedProject]]
                /\ pending' = updateProject(updatedProject)
    /\ UNCHANGED <<currentProject, persisted>>
    /\ UNCHANGED <<blobs, loads, isLoading>>
    /\ UNCHANGED rowVars
    /\ UNCHANGED roundVars

\* deleteProject(id) up to "await get(...)": the record is asked for.
DeleteProject(id) ==
    /\ Len(calls) < MaxCalls
    /\ calls' = Append(calls,
                 [op |-> "deleteProject", id |-> id, pc |-> "reading",
                  project |-> Null, pre |-> AtCall])
    /\ pending' = Append(pending,
                         KvOp("get", "project", id, Null, Len(calls) + 1))
    /\ UNCHANGED <<currentProject, persisted>>
    /\ UNCHANGED <<blobs, loads, isLoading>>
    /\ UNCHANGED rowVars
    /\ UNCHANGED roundVars

\* deleteProject (call k) from the completion of the get to "await del(...)"
\* of the record.
DeleteProjectRecord(k) ==
    /\ k \in 1..Len(calls)
    /\ calls[k].op = "deleteProject"
    /\ calls[k].pc = "read"
    /\ calls' = [calls EXCEPT ![k].pc = "deleting"]
    /\ pending' = Append(pending, KvOp("del", "project", calls[k].id, Null, k))
    /\ UNCHANGED <<currentProject, persisted>>
    /\ UNCHANGED <<blobs, loads, isLoading>>
    /\ UNCHANGED rowVars
    /\ UNCHANGED roundVars

\* deleteProject (call k) from the completion of that del: when the record
\* that was read refers to a media blob, "await del(...)" of the blob;
\* otherwise the call ends.
DeleteProjectBlob(k) ==
    /\ k \in 1..Len(calls)
    /\ calls[k].op = "deleteProject"
    /\ calls[k].pc = "deleted"
    /\ IF calls[k].project # Null /\ calls[k].project.data.audioBlobId # Undefined
       THEN /\ calls' = [calls EXCEPT ![k].pc = "deletingBlob"]
            /\ pending' = Append(pending,
                                 KvOp("del", "audio",
                                      calls[k].project.data.audioBlobId, Null, k))
       ELSE /\ calls' = [calls EXCEPT ![k].pc = "returned"]
            /\ UNCHANGED pending
    /\ UNCHANGED <<currentProject, persisted>>
    /\ UNCHANGED <<blobs, loads, isLoading>>
    /\ UNCHANGED rowVars
    /\ UNCHANGED roundVars

(***************************************************************************)
(* Project store: loadProject of the project while other calls are made.   *)
(* The reads of the call are operations of the key-value store like the    *)
(* writes of the other calls, and complete after the operations called     *)
(* before them.                                                            *)
(***************************************************************************)

\* loadProject(id) up to "await getProject(id)": isLoading is set and the
\* read of the record is issued.
LoadProject(id) ==
    /\ Len(calls) < MaxCalls
    /\ isLoading' = TRUE
    /\ calls' = Append(calls,
                 [op |-> "loadProject", id |-> id, pc |-> "reading",
                  project |-> Null, pre |-> AtCall])
    /\ pending' = Append(pending,
                         KvOp("get", "project", id, Null, Len(calls) + 1))
    /\ UNCHANGED <<currentProject, persisted>>
    /\ UNCHANGED <<blobs, loads>>
    /\ UNCHANGED rowVars
    /\ UNCHANGED roundVars

\* loadProject (call k) from the completion of getProject(id): the record
\* becomes currentProject; with a media blob the call waits again
\* (await get(audioBlobKey)), without one it ends, and so does a call that
\* found no record; the finally block of a call that ends sets isLoading to
\* false.
LoadProjectRead(k) ==
    /\ k \in 1..Len(calls)
    /\ calls[k].op = "loadProject"
    /\ calls[k].pc = "read"
    /\ LET projectData == calls[k].project
           waits == projectData # Null /\ projectData.data.audioBlobId # Undefined
       IN  /\ currentProject' = IF projectData # Null THEN projectData
                                ELSE currentProject
           /\ calls' = [calls EXCEPT ![k].pc = IF waits THEN "readingBlob"
                                                ELSE "returned"]
           /\ pending' = IF waits
                         THEN Append(pending,
                                     KvOp("get", "audio",
                                          projectData.data.audioBlobId, Null, k))
                         ELSE pending
           /\ isLoading' = IF waits THEN isLoading ELSE FALSE
    /\ UNCHANGED persisted
    /\ UNCHANGED <<blobs, loads>>
    /\ UNCHANGED rowVars
    /\ UNCHANGED roundVars

\* loadProject (call k) from the completion of the read of the media blob:
\* the call ends.
LoadProjectBlob(k) ==
    /\ k \in 1..Len(calls)
    /\ calls[k].op = "loadProject"
    /\ calls[k].pc = "readBlob"
    /\ calls' = [calls EXCEPT ![k].pc = "returned"]
    /\ isLoading' = FALSE
    /\ UNCHANGED <<currentProject, persisted>>
    /\ UNCHANGED <<blobs, loads, pending>>
    /\ UNCHANGED rowVars
    /\ UNCHANGED roundVars

(***************************************************************************)
(* Specification of the project page on a project with cues: every action  *)
(* of the store and deleteProject, in any order and overlapping (importAudio *)
(* waits for the store of its blob while the user goes on editing)         *)
(***************************************************************************)
AudioCues ==
    {Cue(Undefined, 0, 100, "a", Undefined), Cue(Undefined, 100, 200, "b", Undefined)}

MaxAudioCues == 1     \* most cues in the collection the page starts from

AudioCollections == UNION {[1..n -> AudioCues] : n \in 0..MaxAudioCues}

AudioTexts == {""}

\* The "data" of an imported JSON file: none ({}), cues only, or the data of
\* an exported project that refers to a media blob (stored by no call of
\* the behaviour).
ImportedData ==
    {[waveform |-> Absent, subtitles |-> Absent, audioBlobId |-> Undefined],
     [waveform |-> Absent,
      subtitles |-> Given(<<Cue(Undefined, 0, 100, "a", Undefined)>>),
      audioBlobId |-> Undefined],
     [waveform |-> Absent, subtitles |-> Given(<<>>), audioBlobId |-> BlobId(0)]}

InitAudio ==
    /\ currentProject \in {AudioProject(Given(l), Undefined) : l \in AudioCollections}
    /\ persisted = currentProject
    /\ calls = <<>>
    /\ AsyncIdle
    /\ RowsIdle
    /\ RoundIdle

NextAudio ==
    \/ \E id \in {currentProject.id} : LoadProject(id)
    \/ \E k \in 1..MaxCalls : LoadProjectRead(k)
    \/ \E k \in 1..MaxCalls : LoadProjectBlob(k)
    \/ \E t \in {"X"} : RenameProject(t)
    \/ \E d \in {[waveform |-> Absent, subtitles |-> Absent,
                  audioBlobId |-> Undefined]} : ImportProjectData(d)
    \/ \E k \in 1..MaxCalls : ImportProjectFromJSON(k)
    \/ \E w \in {<<0, 1>>} : ImportWaveform(w)
    \/ \E l \in {<<Cue(Undefined, 0, 50, "c", Undefined)>>} : ImportSubtitles(l)
    \/ ImportAudioStart
    \/ \E k \in 1..MaxCalls : ImportAudioUpdate(k)
    \/ \E i \in {0}, t \in AudioTexts : UpdateSubtitleText(i, t)
    \/ \E i \in {0}, t \in AdjustTypes, a \in {100} :
          AdjustSubtitleTiming(i, t, a)
    \/ \E k \in 1..MaxCalls : SetCurrentProject(k)
    \/ \E id \in {currentProject.id} : DeleteProject(id)
    \/ \E k \in 1..MaxCalls : DeleteProjectRecord(k)
    \/ \E k \in 1..MaxCalls : DeleteProjectBlob(k)
    \/ Settle

SpecAudio == InitAudio /\ [][NextAudio]_vars

(***************************************************************************)
(* Specification of the storage of one project: from the project as        *)
(* createProject stored it and loadProject loaded it, every action of the  *)
(* store and deleteProject, in any order and overlapping                   *)
(***************************************************************************)

\* createProject stores data: {}; loadProject made the record currentProject.
InitStorage ==
    /\ currentProject = AudioProject(Absent, Undefined)
    /\ persisted = currentProject
    /\ calls = <<>>
    /\ AsyncIdle
    /\ RowsIdle
    /\ RoundIdle

NextStorage ==
    \/ \E id \in {currentProject.id} : LoadProject(id)
    \/ \E k \in 1..MaxCalls : LoadProjectRead(k)
    \/ \E k \in 1..MaxCalls : LoadProjectBlob(k)
    \/ \E t \in {"X"} : RenameProject(t)
    \/ \E d \in ImportedData : ImportProjectData(d)
    \/ \E k \in 1..MaxCalls : ImportProjectFromJSON(k)
    \/ \E w \in {<<0, 1>>} : ImportWaveform(w)
    \/ \E l \in {<<>>} : ImportSubtitles(l)
    \/ ImportAudioStart
    \/ \E k \in 1..MaxCalls : ImportAudioUpdate(k)
    \/ \E i \in {0}, t \in {""} : UpdateSubtitleText(i, t)
    \/ \E i \in {0}, t \in {"endTime"}, a \in {100} :
          AdjustSubtitleTiming(i, t, a)
    \/ \E k \in 1..MaxCalls : SetCurrentProject(k)
    \/ \E id \in {currentProject.id} : DeleteProject(id)
    \/ \E k \in 1..MaxCalls : DeleteProjectRecord(k)
    \/ \E k \in 1..MaxCalls : DeleteProjectBlob(k)
    \/ Settle

SpecStorage == InitStorage /\ [][NextStorage]_vars

(***************************************************************************)
(* Project store: loadProject of one project after another, with no write *)
(* in flight: the reads of the records resolve in any order               *)
(***************************************************************************)
MaxLoads == 2         \* most loadProject calls started in a behaviour

LoadIds == {"a", "b"}

\* loadProject(id) up to "await getProject(id)": isLoading is set and the
\* read of the record is issued.
LoadStart(id) ==
    /\ Len(loads) < MaxLoads
    /\ isLoading' = TRUE
    /\ loads' = Append(loads, [id |-> id, pc |-> "reading"])
    /\ UNCHANGED <<blobs, pending>>
    /\ UNCHANGED storeVars
    /\ UNCHANGED rowVars
    /\ UNCHANGED roundVars

\* The read of call k resolves: the record becomes currentProject; with a
\* media blob the call waits again (await get(audioBlobKey)), without one it
\* ends, and so does a call that found no record; the finally block of a
\* call that ends sets isLoading to false.
LoadRead(k) ==
    /\ k \in 1..Len(loads)
    /\ loads[k].pc = "reading"
    /\ LET projectData == persisted[loads[k].id]
           waits == projectData # Null /\ projectData.data.audioBlobId # Undefined
       IN  /\ currentProject' = IF projectData # Null THEN projectData
                                ELSE currentProject
           /\ loads' = [loads EXCEPT ![k].pc = IF waits THEN "blob" ELSE "done"]
           /\ isLoading' = IF waits THEN isLoading ELSE FALSE
    /\ UNCHANGED <<persisted, calls>>
    /\ UNCHANGED <<blobs, pending>>
    /\ UNCHANGED rowVars
    /\ UNCHANGED roundVars

\* The read of the media blob of call k resolves: the call ends.
LoadBlob(k) ==
    /\ k \in 1..Len(loads)
    /\ loads[k].pc = "blob"
    /\ loads' = [loads EXCEPT ![k].pc = "done"]
    /\ isLoading' = FALSE
    /\ UNCHANGED <<blobs, pending>>
    /\ UNCHANGED storeVars
    /\ UNCHANGED rowVars
    /\ UNCHANGED roundVars

(***************************************************************************)
(* Specification of project loading: the page asks for a project, then     *)
(* for another one; the reads resolve in any order                         *)
(***************************************************************************)

\* The record of project id, with or without a media blob.
StoredProject(id, audioBlobId) ==
    [id |-> id, data |-> [subtitles |-> Given(<<>>), audioBlobId |-> audioBlobId]]

InitLoad ==
    /\ persisted \in {[id \in LoadIds |-> StoredProject(id, f[id])] :
                        f \in [LoadIds -> {Undefined, BlobId(1)}]}
    /\ currentProject = Null
    /\ calls = <<>>
    /\ blobs = {BlobId(1)}
    /\ loads = <<>>
    /\ isLoading = FALSE
    /\ pending = <<>>
    /\ RowsIdle
    /\ RoundIdle

NextLoad ==
    \/ \E id \in LoadIds : LoadStart(id)
    \/ \E k \in 1..MaxLoads : LoadRead(k)
    \/ \E k \in 1..MaxLoads : LoadBlob(k)

SpecLoad == InitLoad /\ [][NextLoad]_vars

(***************************************************************************)
(* Properties of createTimelineRows (checked under SpecRows, and under      *)
(* SpecRowsUnvalidated where inverted cues or the config matter)           *)
(***************************************************************************)
TotalPoints == IF waveform.given THEN Len(waveform.value) ELSE 0
TotalDurationMs == TotalPoints * config.msPerPoint
InputCues == IF cues.given THEN cues.value ELSE <<>>
LayoutDone == layout.variant # "none"
Returned == layout.status = "ok"
Rows == layout.rows

\* The segment carries the start, end and text of the cue.
SegmentOf(seg, c) ==
    seg.start = c.start /\ seg.end = c.end /\ seg.text = c.text

\* Number of segments of row r made from a cue equal to c.
SegmentsInRow(r, c) ==
    Cardinality({k \in 1..Len(Rows[r].subtitles) : SegmentOf(Rows[r].subtitles[k], c)})

\* Number of input cues equal to c in start, end and text.
CuesLike(c) ==
    Cardinality({k \in 1..Len(InputCues) : SegmentOf(InputCues[k], c)})

RECURSIVE SumOver(_, _)
SumOver(f, n) == IF n = 0 THEN 0 ELSE f[n] + SumOver(f, n - 1)

TotalSegments == SumOver([r \in 1..Len(Rows) |-> Len(Rows[r].subtitles)], Len(Rows))

\* ceil(n / p) for p >= 1
CeilDiv(n, p) == (n + p - 1) \div p

\* C2: with N >= 1 points, every cue with 0 <= start < N*msPerPoint has its
\* segment in exactly one row, the row with startTime <= start < endTime
\* (one segment per input cue equal to it, none in any other row).
C2_SingleAssignment ==
    (LayoutDone /\ waveform.given /\ TotalPoints >= 1) =>
        /\ Returned
        /\ \A k \in 1..Len(InputCues) :
              LET c == InputCues[k]
              IN  (0 <= c.start /\ c.start < TotalDurationMs) =>
                    \E r \in 1..Len(Rows) :
                        /\ Rows[r].startTime <= c.start
                        /\ c.start < Rows[r].endTime
                        /\ SegmentsInRow(r, c) = CuesLike(c)
                        /\ \A q \in 1..Len(Rows) :
                              q # r => SegmentsInRow(q, c) = 0

\* A cue that starts in a row after the first one, on that row's first
\* millisecond, was laid out.
C2_Witness ==
    /\ Returned
    /\ Len(Rows) >= 2
    /\ \E k \in 1..Len(InputCues), r \in 2..Len(Rows) :
          /\ InputCues[k].start = Rows[r].startTime
          /\ SegmentsInRow(r, InputCues[k]) >= 1

\* C3: for every waveform of length N >= 0 and pointsPerRow P >= 1 the call
\* returns exactly ceil(N/P) rows whose pointCount sum to N; row k starts at
\* point k*P, every row but the last holds P points and the last one holds
\* N - startPoint points, between 1 and P.
C3_RowPartition ==
    (LayoutDone /\ waveform.given) =>
        /\ Returned
        /\ Len(Rows) = CeilDiv(TotalPoints, config.pointsPerRow)
        /\ SumOver([r \in 1..Len(Rows) |-> Rows[r].pointCount], Len(Rows)) = TotalPoints
        /\ \A r \in 1..Len(Rows) :
              /\ Rows[r].startPoint = (r - 1) * config.pointsPerRow
              /\ r < Len(Rows) => Rows[r].pointCount = config.pointsPerRow
              /\ r = Len(Rows) =>
                    /\ Rows[r].pointCount = TotalPoints - Rows[r].startPoint
                    /\ 1 <= Rows[r].pointCount
                    /\ Rows[r].pointCount <= config.pointsPerRow

\* C4: every returned row has startTime = startPoint*msPerPoint,
\* endTime = startTime + pointCount*msPerPoint and width = pointCount*barWidth;
\* row 0 starts at 0, consecutive rows are contiguous in time and the last
\* row ends at N*msPerPoint.
C4_RowGeometry ==
    (Returned /\ waveform.given) =>
        /\ \A r \in 1..Len(Rows) :
              /\ Rows[r].startTime = Rows[r].startPoint * config.msPerPoint
              /\ Rows[r].endTime =
                    Rows[r].startTime + Rows[r].pointCount * config.msPerPoint
              /\ Rows[r].width = Rows[r].pointCount * config.barWidth
              /\ r < Len(Rows) => Rows[r].endTime = Rows[r + 1].startTime
        /\ Len(Rows) >= 1 =>
              /\ Rows[1].startTime = 0
              /\ Rows[Len(Rows)].endTime = TotalDurationMs

\* Both variants returned at least two rows, the last one partial.
C4_Witness ==
    /\ Returned
    /\ Len(Rows) >= 2
    /\ Rows[Len(Rows)].pointCount < config.pointsPerRow
    /\ config.msPerPoint > 1

\* The rows the interval of a cue reaches into.
RowsTouched(c) ==
    {r \in 1..Len(Rows) : c.start < Rows[r].endTime /\ Rows[r].startTime < c.end}

\* C5: every input cue yields at most one segment over all rows: a cue that
\* spans several rows has its segment only in the row of its start (the first
\* row when it starts before the timeline), never in a later row, and there
\* are never more segments than cues.
C5_AtMostOneSegment ==
    Returned =>
        /\ TotalSegments <= Len(InputCues)
        /\ \A k \in 1..Len(InputCues) :
              LET c == InputCues[k]
                  total == SumOver([r \in 1..Len(Rows) |-> SegmentsInRow(r, c)],
                                   Len(Rows))
              IN  /\ total <= CuesLike(c)
                  /\ \A r \in 1..Len(Rows) :
                        Rows[r].startTime > Max(c.start, 0) =>
                            SegmentsInRow(r, c) = 0

\* A cue that reaches into at least two rows was laid out, and has a segment.
C5_Witness ==
    /\ Returned
    /\ \E k \in 1..Len(InputCues) :
          /\ Cardinality(RowsTouched(InputCues[k])) >= 2
          /\ \E r \in 1..Len(Rows) : SegmentsInRow(r, InputCues[k]) = 1

\* q = Math.max(0, n / d) for integers n and d > 0, q a fraction
IsMax0Quotient(q, n, d) ==
    IF n < 0 THEN q.num = 0 ELSE q.num * d = n * q.den

\* C6: every segment of a row r has startOffsetInRow =
\* max(0, (start - r.startTime) / msPerPoint * barWidth) and width =
\* (end - start) / msPerPoint * barWidth, not clipped to the width of the row.
C6_SegmentGeometry ==
    Returned =>
        \A r \in 1..Len(Rows) : \A k \in 1..Len(Rows[r].subtitles) :
            LET seg == Rows[r].subtitles[k]
            IN  /\ seg.startOffsetInRow.den > 0
                /\ seg.width.den > 0
                /\ IsMax0Quotient(seg.startOffsetInRow,
                                  (seg.start - Rows[r].startTime) * config.barWidth,
                                  config.msPerPoint)
                /\ seg.width.num * config.msPerPoint =
                      (seg.end - seg.start) * config.barWidth * seg.width.den

\* A segment wider than its row, at a fractional pixel offset.
C6_Witness ==
    /\ Returned
    /\ \E r \in 1..Len(Rows) : \E k \in 1..Len(Rows[r].subtitles) :
          LET seg == Rows[r].subtitles[k]
          IN  /\ seg.width.num > Rows[r].width * seg.width.den
              /\ seg.startOffsetInRow.den = 2

\* C10: a cue whose start is at or beyond the end of the last row
\* (start >= N*msPerPoint) is dropped: no row holds a segment for it.
C10_LateCueDropped ==
    (Returned /\ waveform.given) =>
        \A k \in 1..Len(InputCues) :
            InputCues[k].start >= TotalDurationMs =>
                \A r \in 1..Len(Rows) : SegmentsInRow(r, InputCues[k]) = 0

\* C11 as stated: no cue with end < 0 has a segment in any row, whatever
\* its start.
C11_EndBeforeTimelineDropped ==
    Returned =>
        \A k \in 1..Len(InputCues) :
            InputCues[k].end < 0 =>
                \A r \in 1..Len(Rows) : SegmentsInRow(r, InputCues[k]) = 0

\* C11: a cue that lies entirely before the timeline (start < 0 and end < 0)
\* has no segment in any row.
C11_PreTimelineCueDropped ==
    Returned =>
        \A k \in 1..Len(InputCues) :
            (InputCues[k].start < 0 /\ InputCues[k].end < 0) =>
                \A r \in 1..Len(Rows) : SegmentsInRow(r, InputCues[k]) = 0

\* Rows were returned for a cue that starts and ends before the timeline, and
\* hold no segment.
C11_Witness ==
    /\ Returned
    /\ Len(Rows) >= 1
    /\ \E k \in 1..Len(InputCues) :
          /\ InputCues[k].start < InputCues[k].end
          /\ InputCues[k].end < 0
    /\ TotalSegments = 0

\* C12: with at least one row, a cue with start < 0 <= end has its segment
\* in the first row and in no other; the segment is at offset 0 and its width
\* is (end - start) / msPerPoint * barWidth, the full duration of the cue.
C12_EarlyCueInFirstRow ==
    (LayoutDone /\ waveform.given /\ TotalPoints >= 1) =>
        /\ Returned
        /\ \A k \in 1..Len(InputCues) :
              LET c == InputCues[k]
              IN  (c.start < 0 /\ c.end >= 0) =>
                    /\ SegmentsInRow(1, c) = CuesLike(c)
                    /\ \A r \in 2..Len(Rows) : SegmentsInRow(r, c) = 0
                    /\ \A j \in 1..Len(Rows[1].subtitles) :
                          LET seg == Rows[1].subtitles[j]
                          IN  SegmentOf(seg, c) =>
                                /\ seg.startOffsetInRow = Frac(0, 1)
                                /\ seg.width.den > 0
                                /\ seg.width.num * config.msPerPoint =
                                      (c.end - c.start) * config.barWidth
                                          * seg.width.den

\* A cue from -2 ms to 3 ms was laid out over several rows: its segment is in
\* the first row and wider than the part of the cue inside the timeline.
C12_Witness ==
    /\ Returned
    /\ Len(Rows) >= 2
    /\ \E k \in 1..Len(InputCues), j \in 1..Len(Rows[1].subtitles) :
          /\ InputCues[k].start = -2
          /\ InputCues[k].end = 3
          /\ SegmentOf(Rows[1].subtitles[j], InputCues[k])
          /\ Rows[1].subtitles[j].width.num * config.msPerPoint >
                3 * config.barWidth * Rows[1].subtitles[j].width.den

\* C13: for a waveform of length 0 the call returns the empty row list and
\* raises no error, whatever the cue list.
C13_EmptyWaveformNoRows ==
    (LayoutDone /\ waveform.given /\ TotalPoints = 0) =>
        /\ Returned
        /\ Rows = <<>>

\* C14: a call with a non-positive pointsPerRow, barWidth or msPerPoint fails
\* with an InvalidConfig error: it neither returns rows nor runs for ever.
C14_InvalidConfigRejected ==
    (LayoutDone /\ (config.pointsPerRow <= 0 \/ config.barWidth <= 0
                        \/ config.msPerPoint <= 0)) =>
        /\ layout.status # "ok"
        /\ layout.status # "hang"
        /\ layout.status = "InvalidConfig"

\* C15: when the waveform argument is absent the call returns the empty
\* list, whatever the cue list and the config.
C15_AbsentWaveformNoRows ==
    (LayoutDone /\ waveform = Absent) =>
        /\ Returned
        /\ Rows = <<>>

\* A call without a waveform, with a cue and a pointsPerRow of 0, returned [].
C15_Witness ==
    /\ LayoutDone
    /\ waveform = Absent
    /\ Len(InputCues) >= 1
    /\ config.pointsPerRow = 0
    /\ Returned
    /\ Rows = <<>>

\* The segment was built from the input cue at position p: it has its start,
\* end and text, and its id when the cue has one.
SegmentFrom(seg, p) ==
    /\ SegmentOf(seg, InputCues[p])
    /\ IF InputCues[p].id # Undefined
       THEN seg.id = InputCues[p].id
       ELSE seg.id \notin RowCueIds

\* C22: within every returned row the segments are in non-decreasing order
\* of cue start, and segments of cues with equal start are in the order
\* those cues have in the input list.
C22_SegmentsOrdered ==
    Returned =>
        \A r \in 1..Len(Rows) :
            \A j, k \in 1..Len(Rows[r].subtitles) :
                j < k =>
                    LET a == Rows[r].subtitles[j]
                        b == Rows[r].subtitles[k]
                    IN  /\ a.start <= b.start
                        /\ a.start = b.start =>
                              \E p, q \in 1..Len(InputCues) :
                                  /\ p < q
                                  /\ SegmentFrom(a, p)
                                  /\ SegmentFrom(b, q)

\* Two different cues of equal start are in one row, in input order.
C22_Witness ==
    /\ Returned
    /\ \E r \in 1..Len(Rows) :
          /\ Len(Rows[r].subtitles) >= 2
          /\ Rows[r].subtitles[1].start = Rows[r].subtitles[2].start
          /\ Rows[r].subtitles[1].end > Rows[r].subtitles[2].end
          /\ SegmentFrom(Rows[r].subtitles[1], 1)
          /\ SegmentFrom(Rows[r].subtitles[2], 2)

\* Position (from 0) of the input cue p in the start-sorted cue list: the
\* cues that start earlier, and the cues of equal start that come before it.
SortedPos(p) ==
    Cardinality({q \in 1..Len(InputCues) :
                    \/ InputCues[q].start < InputCues[p].start
                    \/ (InputCues[q].start = InputCues[p].start /\ q < p)})

\* C23: a segment built from a cue that has an id carries that id; a segment
\* built from a cue without an id has the id "subtitle-" followed by the
\* position of the cue in the start-sorted cue list, dropped cues counted.
C23_SegmentIds ==
    Returned =>
        \A r \in 1..Len(Rows) : \A j \in 1..Len(Rows[r].subtitles) :
            LET seg == Rows[r].subtitles[j]
            IN  \E p \in 1..Len(InputCues) :
                    /\ SegmentOf(seg, InputCues[p])
                    /\ seg.id = IF InputCues[p].id # Undefined
                                THEN InputCues[p].id
                                ELSE "subtitle-" \o ToString(SortedPos(p))

\* A cue without an id, first in the input list, follows in start order a cue
\* that was dropped: its segment is "subtitle-1".
C23_Witness ==
    /\ Returned
    /\ Len(InputCues) = 2
    /\ InputCues[2].end < 0
    /\ InputCues[1].start >= 0
    /\ InputCues[1].id = Undefined
    /\ TotalSegments = 1
    /\ \E r \in 1..Len(Rows) :
          /\ Len(Rows[r].subtitles) = 1
          /\ Rows[r].subtitles[1].id = "subtitle-1"

call == IF calls = <<>> THEN NoCall ELSE calls[1]
pre == call.pre

\* An adjustSubtitleTiming call was made and has returned.
Adjusted == call.op = "adjustSubtitleTiming" /\ call.pc = "returned"
Succeeded == Adjusted /\ call.result
PreSubs == pre.currentProject.data.subtitles.value
PostSubs == currentProject.data.subtitles.value

\* The call found a cue at its index.
Located ==
    /\ Adjusted
    /\ HasSubtitles(pre.currentProject)
    /\ 0 <= call.subtitleIndex
    /\ call.subtitleIndex < Len(PreSubs)

Target == PreSubs[call.subtitleIndex + 1]
PreSorted == SortByStart(PreSubs)

\* Position of the target in start-sorted order: the first cue there with
\* the start, end and text of the target.
TargetPos ==
    CHOOSE k \in 1..Len(PreSorted) :
        /\ SegmentOf(PreSorted[k], Target)
        /\ \A j \in 1..(k - 1) : ~SegmentOf(PreSorted[j], Target)

\* t / 100 rounded to the nearest integer, a tie away from zero, times 100.
RoundTo100(t) ==
    CHOOSE m \in {100 * q : q \in -10..10} :
        /\ 2 * Abs(m - t) <= 100
        /\ 2 * Abs(m - t) = 100 => Abs(m) > Abs(t)

RequestedStart == Max(0, RoundTo100(Target.start + call.amount))
RequestedEnd == RoundTo100(Target.end + call.amount)

Overlap(a, b) == a.start < b.end /\ b.start < a.end

NoOverlap(subtitles) ==
    \A j, k \in 1..Len(subtitles) :
        j # k => ~Overlap(subtitles[j], subtitles[k])

\* Every cue has start < end and no two cues overlap in time.
WellFormed(subtitles) ==
    /\ \A k \in 1..Len(subtitles) : subtitles[k].start < subtitles[k].end
    /\ NoOverlap(subtitles)

\* C1: from a collection in which every cue has start < end and no two cues
\* overlap, a successful adjustSubtitleTiming leaves a stored collection in
\* which no two cues overlap.
C1_NoOverlapAfterAdjust ==
    (Succeeded /\ WellFormed(PreSubs)) => NoOverlap(PostSubs)

\* C7: when the new start is at or beyond the end of the cue, or the new end
\* at or before its start, the call returns false and neither currentProject
\* (cues and their order) nor the persisted project changes.
C7_RejectedUnchanged ==
    Located =>
        LET inverts == IF call.adjustType = "startTime"
                       THEN RequestedStart >= Target.end
                       ELSE RequestedEnd <= Target.start
        IN  inverts =>
              /\ call.result = FALSE
              /\ currentProject = pre.currentProject
              /\ persisted = pre.persisted

\* A start moved to the end of its cue was rejected, on a collection that is
\* not stored in start order.
C7_Witness ==
    /\ Located
    /\ call.result = FALSE
    /\ call.adjustType = "startTime"
    /\ Target.start < Target.end
    /\ RequestedStart = Target.end
    /\ PreSubs # PreSorted

\* C8: in a successful call, a start moved earlier (amount < 0) into the
\* preceding cue of the start-sorted order sets that cue's end to the new
\* start, and an end moved later (amount > 0) into the following cue sets that
\* cue's start to the new end; the target gets the full requested boundary,
\* so the two facing boundaries are equal.
C8_NeighbourTrimmed ==
    Succeeded =>
        LET k == TargetPos
        IN  /\ ( /\ call.adjustType = "startTime"
                 /\ call.amount < 0
                 /\ k > 1
                 /\ PreSorted[IF k > 1 THEN k - 1 ELSE k].end > RequestedStart )
               => /\ PostSubs[k - 1] =
                        [PreSorted[k - 1] EXCEPT !.end = RequestedStart]
                  /\ PostSubs[k].start = RequestedStart
                  /\ PostSubs[k].end = Target.end
                  /\ PostSubs[k - 1].end = PostSubs[k].start
            /\ ( /\ call.adjustType = "endTime"
                 /\ call.amount > 0
                 /\ k < Len(PreSorted)
                 /\ PreSorted[IF k < Len(PreSorted) THEN k + 1 ELSE k].start
                        < RequestedEnd )
               => /\ PostSubs[k + 1] =
                        [PreSorted[k + 1] EXCEPT !.start = RequestedEnd]
                  /\ PostSubs[k].end = RequestedEnd
                  /\ PostSubs[k].start = Target.start
                  /\ PostSubs[k].end = PostSubs[k + 1].start

\* Two adjacent cues of a well-formed collection; the end of the first was
\* moved later, into the second, which was trimmed.
C8_Witness ==
    /\ Succeeded
    /\ WellFormed(PreSubs)
    /\ call.adjustType = "endTime"
    /\ call.amount > 0
    /\ TargetPos < Len(PreSorted)
    /\ PreSorted[TargetPos + 1].start = Target.end
    /\ PostSubs[TargetPos + 1].start = RequestedEnd
    /\ PostSubs[TargetPos + 1].start < PostSubs[TargetPos + 1].end

\* C9: after a successful call the adjusted boundary is a multiple of 100:
\* the new start is max(0, roundTo100(oldStart + amount)), never negative, or
\* the new end is roundTo100(oldEnd + amount); the other boundary, the text,
\* the id and the settings of the target are unchanged.
C9_QuantizedBoundary ==
    Succeeded =>
        LET after == PostSubs[TargetPos]
        IN  /\ IF call.adjustType = "startTime"
               THEN /\ after.start = RequestedStart
                    /\ after.start % 100 = 0
                    /\ after.start >= 0
                    /\ after.end = Target.end
               ELSE /\ after.end = RequestedEnd
                    /\ after.end % 100 = 0
                    /\ after.start = Target.start
            /\ after.text = Target.text
            /\ after.id = Target.id
            /\ after.settings = Target.settings

\* A cue with an id and settings got a boundary that had to be rounded.
C9_Witness ==
    /\ Succeeded
    /\ Target.id = "c1"
    /\ Target.settings # Undefined
    /\ call.adjustType = "endTime"
    /\ (Target.end + call.amount) % 100 # 0
    /\ PostSubs[TargetPos].end # Target.end

\* Positions of the start-sorted order whose cue differs, in start, end or
\* text, from the cue the call left there.
ChangedPositions ==
    {j \in 1..Len(PreSorted) : ~SegmentOf(PostSubs[j], PreSorted[j])}

\* C19: a successful call changes the start, end or text of no cue other than
\* the target and at most one cue next to it in start-sorted order; when the
\* boundary moves away from the neighbour (a start with amount >= 0, an end
\* with amount <= 0) no cue other than the target changes.
C19_FrameOfAdjust ==
    Succeeded =>
        LET k == TargetPos
            away == IF call.adjustType = "startTime"
                    THEN call.amount >= 0 ELSE call.amount <= 0
        IN  /\ Len(PostSubs) = Len(PreSorted)
            /\ \/ ChangedPositions \subseteq {k - 1, k}
               \/ ChangedPositions \subseteq {k, k + 1}
            /\ away => ChangedPositions \subseteq {k}

\* An end was moved earlier and still lies beyond the start of the following
\* cue, which overlapped the target before the call; that cue and the cue
\* before the target are as they were.
C19_Witness ==
    /\ Succeeded
    /\ call.adjustType = "endTime"
    /\ call.amount < 0
    /\ Len(PreSorted) = 3
    /\ TargetPos = 2
    /\ PreSorted[3].start < PostSubs[2].end
    /\ PostSubs[2].end < Target.end
    /\ ChangedPositions = {2}

\* C21: a call that cannot locate its target (no current project, no cue
\* list, or an index outside 0..len-1) returns false and leaves the project
\* and its cue collection unchanged; for every valid index the match on
\* (start, end, text) in the sorted copy finds a cue, so nothing is written
\* at position -1.
C21_NotLocatedRejected ==
    /\ (Adjusted /\ ~Located) =>
          /\ call.result = FALSE
          /\ currentProject = pre.currentProject
          /\ persisted = pre.persisted
    /\ Located =>
          /\ \E k \in 1..Len(PreSorted) : SegmentOf(PreSorted[k], Target)
          /\ FindSortedIndex(PreSorted, Target) \in 1..Len(PreSorted)

\* A call with the index just past the last of three cues was refused.
C21_Witness ==
    /\ Adjusted
    /\ pre.currentProject # Null
    /\ HasSubtitles(pre.currentProject)
    /\ Len(PreSubs) = 3
    /\ call.subtitleIndex = 3
    /\ call.result = FALSE
    /\ currentProject = pre.currentProject

\* Every cue of the collection has start < end.
PositiveDurations(subtitles) ==
    \A k \in 1..Len(subtitles) : subtitles[k].start < subtitles[k].end

\* C25: from a collection in which every cue has start < end, a successful
\* call leaves a collection in which every cue, a neighbour trimmed by the
\* collision resolution included, has start < end.
C25_DurationsStayPositive ==
    (Succeeded /\ PositiveDurations(PreSubs)) => PositiveDurations(PostSubs)

\* Number of cues of the collection with the id, text and settings of c.
CountLike(subtitles, c) ==
    Cardinality({k \in 1..Len(subtitles) :
                    /\ subtitles[k].id = c.id
                    /\ subtitles[k].text = c.text
                    /\ subtitles[k].settings = c.settings})

\* C26: a successful call keeps the number of cues and the multiset of
\* (id, text, settings), also when several cues share start, end and text
\* and differ in id or settings.
C26_IdentitiesKept ==
    Succeeded =>
        /\ Len(PostSubs) = Len(PreSubs)
        /\ \A k \in 1..Len(PreSubs) :
              CountLike(PostSubs, PreSubs[k]) = CountLike(PreSubs, PreSubs[k])

\* C27: after a successful call with index i the cue stored at index i is
\* the cue that was adjusted (the one at the target's place in start-sorted
\* order, with the target's id, text and settings), so that a following call
\* with the same index acts on the same cue.
C27_IndexStillTarget ==
    Succeeded =>
        LET after == PostSubs[call.subtitleIndex + 1]
        IN  /\ after = PostSubs[TargetPos]
            /\ after.id = Target.id
            /\ after.text = Target.text
            /\ after.settings = Target.settings
            /\ after.start = Target.start \/ after.end = Target.end

(***************************************************************************)
(* Properties of roundToNearest100ms (checked under SpecRound)             *)
(***************************************************************************)

\* C20 as stated: for every integer t, negative values and exact ties
\* included, the quantization returns t / 100 rounded half away from zero,
\* times 100.
C20_RoundsHalfAwayFromZero ==
    rounded.given => rounded.value = RoundTo100(boundary)

\* C20: for every integer t the quantization returns the multiple of 100
\* nearest to t, an exact tie (t mod 100 = 50) going to the larger multiple;
\* this is round-half-away-from-zero for t >= 0 and for every t that is not
\* a tie.
C20_RoundsHalfUp ==
    rounded.given =>
        /\ rounded.value % 100 = 0
        /\ 2 * Abs(rounded.value - boundary) <= 100
        /\ 2 * Abs(rounded.value - boundary) = 100 => rounded.value > boundary
        /\ (boundary >= 0 \/ boundary % 100 # 50) => rounded.value = RoundTo100(boundary)

\* The negative tie -150 was quantized, to -100.
C20_Witness ==
    /\ rounded.given
    /\ boundary = -150
    /\ rounded.value = -100

(***************************************************************************)
(* Properties of updateSubtitleText (checked under SpecEdit)               *)
(***************************************************************************)
\* An updateSubtitleText call was made and has returned.
Edited == call.op = "updateSubtitleText" /\ call.pc = "returned"

\* The call found a cue at its index.
EditLocated ==
    /\ Edited
    /\ HasSubtitles(pre.currentProject)
    /\ 0 <= call.subtitleIndex
    /\ call.subtitleIndex < Len(PreSubs)

\* The non-empty trimmed parts between the blank lines of the new text.
EditParts == NonEmptyParts(SplitOnBlankLines(call.newText))

\* The call split the cue at its index.
IsSplit == EditLocated /\ Len(EditParts) >= 2

\* The stored cues before position i (0-based) are unchanged and the cues
\* after it follow, in their order, the n cues that took its place.
OthersKept(i, n) ==
    /\ Len(PostSubs) = Len(PreSubs) - 1 + n
    /\ \A j \in 1..i : PostSubs[j] = PreSubs[j]
    /\ \A j \in (i + 2)..Len(PreSubs) : PostSubs[j - 1 + n] = PreSubs[j]

\* C16: when a cue with start < end is split into N >= 2 parts, the N new
\* cues stand at its position in storage order, in text order; the first has
\* the original start, the last the original end, every later one starts where
\* the one before ends, every new cue has start < end, and all other cues are
\* unchanged.
C16_SplitTilesInterval ==
    (IsSplit /\ Target.start < Target.end) =>
        LET i == call.subtitleIndex
            n == Len(EditParts)
        IN  /\ call.result
            /\ OthersKept(i, n)
            /\ \A k \in 1..n :
                  /\ PostSubs[i + k].text = EditParts[k]
                  /\ PostSubs[i + k].start < PostSubs[i + k].end
            /\ PostSubs[i + 1].start = Target.start
            /\ PostSubs[i + n].end = Target.end
            /\ \A k \in 2..n : PostSubs[i + k].start = PostSubs[i + k - 1].end

\* The middle cue of three was split into three parts.
C16_Witness ==
    /\ IsSplit
    /\ Len(PreSubs) = 3
    /\ call.subtitleIndex = 1
    /\ Target.start < Target.end
    /\ Len(PostSubs) = 5
    /\ PostSubs[2].end < PostSubs[3].end
    /\ PostSubs[3].end < PostSubs[4].end

\* C17: in a split, every part but the last gets the duration
\* totalDuration * partChars / totalChars, partChars the length of the
\* trimmed part and totalChars the sum over the non-empty trimmed parts.
C17_ProportionalDurations ==
    IsSplit =>
        LET i == call.subtitleIndex
            n == Len(EditParts)
        IN  \A k \in 1..(n - 1) :
                (PostSubs[i + k].end - PostSubs[i + k].start) * TotalChars(EditParts)
                    = (Target.end - Target.start) * Len(EditParts[k])

\* The cue from 0 to 1000 was split as 3 and 2 characters: 0, 600, 1000.
C17_Witness ==
    /\ IsSplit
    /\ Target.start = 0
    /\ Target.end = 1000
    /\ call.newText = "AAA\n\nBB"
    /\ PostSubs[call.subtitleIndex + 1].start = 0
    /\ PostSubs[call.subtitleIndex + 1].end = 600
    /\ PostSubs[call.subtitleIndex + 2].start = 600
    /\ PostSubs[call.subtitleIndex + 2].end = 1000

\* Every character of the text is white space.
AllWhiteSpace(s) ==
    \A i \in 1..Len(s) : SubSeq(s, i, i) \in {" ", "\n", "\t"}

\* C18: with a valid index and a text that is empty after trimming, the call
\* removes that cue: the collection is one shorter and the other cues keep
\* their values and order; with an index outside 0..len-1 the call returns
\* false and changes nothing.
C18_BlankTextDeletes ==
    /\ (EditLocated /\ AllWhiteSpace(call.newText)) =>
          /\ call.result
          /\ OthersKept(call.subtitleIndex, 0)
    /\ ( /\ Edited
         /\ HasSubtitles(pre.currentProject)
         /\ (call.subtitleIndex < 0 \/ call.subtitleIndex >= Len(PreSubs)) )
       => /\ call.result = FALSE
          /\ currentProject = pre.currentProject
          /\ persisted = pre.persisted

\* The middle cue of three different cues was removed by a text of white
\* space.
C18_Witness ==
    /\ EditLocated
    /\ call.newText = " \n"
    /\ Len(PreSubs) = 3
    /\ call.subtitleIndex = 1
    /\ PreSubs[1] # PreSubs[2]
    /\ PreSubs[2] # PreSubs[3]
    /\ PostSubs = <<PreSubs[1], PreSubs[3]>>

(***************************************************************************)
(* Properties of importAudio (checked under SpecAudio)                     *)
(***************************************************************************)

\* The calls that write the cue collection.
CueWriters == {"updateSubtitleText", "adjustSubtitleTiming", "importSubtitles"}

\* C28: an action that returned true is not undone by an importAudio that
\* was waiting for the store of its blob when the action was called: the
\* step that ends the importAudio leaves in currentProject the cue
\* collection the action put there, and once every call has returned and
\* the key-value store has completed every operation, the persisted project
\* holds that collection (the calls being importAudio calls followed by the
\* one action).
C28_CompletedActionKept ==
    /\ [][ \A k \in 1..Len(calls) : \A j \in 1..Len(calls) :
             ( /\ calls[k].op = "importAudio"
               /\ calls[k].pc = "awaiting"
               /\ calls'[k].pc = "returned"
               /\ j > k
               /\ calls[j].pre.pcs[k] = "storing"
               /\ calls[j].op \in CueWriters
               /\ calls[j].pc = "returned"
               /\ calls[j].result
               /\ currentProject.data.subtitles = calls[j].project.data.subtitles ) =>
                  currentProject'.data.subtitles = currentProject.data.subtitles ]_vars
    /\ []( \A j \in 1..Len(calls) :
             ( /\ calls[j].op \in CueWriters
               /\ calls[j].result
               /\ j = Len(calls)
               /\ \E k \in 1..(j - 1) : calls[j].pre.pcs[k] = "storing"
               /\ \A k \in 1..Len(calls) :
                     /\ calls[k].pc = "returned"
                     /\ k # j => calls[k].op = "importAudio"
               /\ pending = <<>> ) =>
                  persisted.data.subtitles = calls[j].project.data.subtitles )

(***************************************************************************)
(* Properties of deleteProject (checked under SpecStorage)                 *)
(***************************************************************************)

\* The calls before call k were importAudio and importProjectData calls made
\* one after the other: each had returned when the next call was made.
ImportsInSequence(k) ==
    \A j \in 1..(k - 1) :
        /\ calls[j].op \in {"importAudio", "importProjectData"}
        /\ \A i \in (j + 1)..k : calls[i].pre.pcs[j] = "returned"

\* C29: when deleteProject completes after a sequence of importAudio and
\* importProjectData calls (none of them in flight when the next call was
\* made, and no call made since), the key-value store holds neither the
\* project record nor any media blob stored for the project.
C29_DeleteLeavesNothing ==
    [][ \A k \in 1..Len(calls) :
          ( /\ calls[k].op = "deleteProject"
            /\ calls[k].pc # "returned"
            /\ calls'[k].pc = "returned"
            /\ k = Len(calls')
            /\ ImportsInSequence(k) ) =>
               /\ persisted' = Null
               /\ blobs' = {} ]_vars

(***************************************************************************)
(* Properties of loadProject (checked under SpecLoad)                      *)
(***************************************************************************)
InFlight == {k \in 1..Len(loads) : loads[k].pc # "done"}

\* C30: when loadProject(a) and then loadProject(b) were started and both
\* have completed, currentProject is the project asked for last, whatever
\* the order in which the reads resolved; and isLoading is true as long as a
\* loadProject call is in flight.
C30_LastLoadWins ==
    /\ (Len(loads) >= 2 /\ InFlight = {}) =>
          /\ currentProject # Null
          /\ currentProject.id = loads[Len(loads)].id
    /\ InFlight # {} => isLoading = TRUE

====
